---- MODULE Spec2Model ----
(***************************************************************************)
(* WebSubscriptionManager (src/web_subscription_manager.js): the registry  *)
(* of subscription records, the bounded attempt loop, the polling retry of *)
(* automated participants and the four notification handlers, as a state   *)
(* machine.  One action is one run of a handler from its call or wake-up   *)
(* to its next suspension point (await client.subscribe, await _sleep,     *)
(* await client.unsubscribe, a pending setTimeout).  An await of a call    *)
(* that returned without suspending continues in the same action.          *)
(***************************************************************************)
EXTENDS Integers, Sequences, FiniteSets, TLC

\* ---- bounds of the model ----
MaxEvents == 1
MaxRaceEvents == 2
MaxSubscribeCalls == 3
MaxHistoryCalls == 35
MaxPollEvents == 2
MaxPollCalls == 3
MaxMediaEvents == 3
MaxMediaCalls == 2
MaxTimeoutCalls == 1
MaxCallbackEvents == 3
MaxTeardownEvents == 2
MaxDefaultEvents == 2
MaxFallbackEvents == 1
MaxFallbackCalls == 4
MaxPolicyEvents == 3
MaxPolicyCalls == 3
MaxUnsubscribeEvents == 3
MaxRetryEvents == 2
MaxDepartEvents == 2
MaxDepartCalls == 3
MaxTeardownCalls == 2
MaxCallbackCalls == 3

\* ---- program constants ----
DefaultMaxRetryAttempts == 3
DefaultRetryDelay == 2000
DefaultSubscriptionTimeout == 10000
BotDefaultMaxAttempts == 5
BotDefaultRetryDelay == 1000
HistoryLimit == 100
HistoryKeep == 50

NOT_SUBSCRIBED == "not_subscribed"
SUBSCRIBING == "subscribing"
SUBSCRIBED == "subscribed"
SUBSCRIPTION_FAILED == "subscription_failed"
UNSUBSCRIBING == "unsubscribing"
SubscriptionState ==
  {NOT_SUBSCRIBED, SUBSCRIBING, SUBSCRIBED, SUBSCRIPTION_FAILED, UNSUBSCRIBING}
SubscriptionType == {"audio", "video"}
Undefined == "undefined"

\* ---- participant identifiers ----
\* A uid is a number or a string of digits; val is the number it denotes.
\* One participant: records, timers and calls of different participants never
\* read or write each other.
Users == {1}
Forms == {"num", "str"}
UID == [form : Forms, val : Users]

\* String(uid): a number becomes its decimal string, a string stays itself.
normalizeUID(uid) == [form |-> "str", val |-> uid.val]

isUIDEqual(uid1, uid2) == normalizeUID(uid1) = normalizeUID(uid2)

VARIABLES
  client,         \* client.remoteUsers: per participant present/hasAudio/hasVideo
  botUsers,       \* window.WebUIDValidator.isBotUser, as the set it accepts
  options,        \* this.options
  handlersBound,  \* the four handlers are registered with client.on
  subscriptions,  \* this.subscriptions: Map key -> record
  subscriptionHistory, \* this.subscriptionHistory
  retryTimers,    \* this.retryTimers: Map raw uid -> timer id
  timers,         \* pending setTimeout(retry) timers with their closure
  tasks,          \* suspended async calls
  calls,          \* what the client and the callbacks have observed so far
  lastLoop,       \* summary of the attempt loop that returned last
  lastCall,       \* summary of the operation or handler that finished last
  throwing,       \* the callbacks the application has set to functions
                  \* that throw
  departed,       \* participants whose user-left was handled after the
                  \* client stopped listing them, and who were neither
                  \* announced (user-joined, user-published) nor listed since
  budget,         \* operations the environment may still start
  callCap,        \* client.subscribe calls the model lets one run make
  now             \* new Date(): the instant of the latest operation started

vars == <<client, botUsers, options, handlersBound, subscriptions,
          subscriptionHistory, retryTimers, timers, tasks, calls, lastLoop,
          lastCall, throwing, departed, budget, callCap, now>>

\* ---- maps ----
Put(f, k, v) == [x \in (DOMAIN f) \cup {k} |-> IF x = k THEN v ELSE f[x]]
Del(f, k) == [x \in (DOMAIN f) \ {k} |-> f[x]]
EmptyMap == [x \in {} |-> 0]

\* ---- options ----
\* An options object is a set of <<key, number>> pairs (a key is present or
\* not); enableAutoSubscribe is given separately as "absent", "true", "false".
HasKey(opts, k) == \E e \in opts : e[1] = k
GetKey(opts, k) == (CHOOSE e \in opts : e[1] = k)[2]
\* opts[k] || d
OrDefault(opts, k, d) ==
  IF HasKey(opts, k) /\ GetKey(opts, k) # 0 THEN GetKey(opts, k) ELSE d
\* { k: opts[k] || d, ...opts }[k]
Spread(opts, k, d) ==
  IF HasKey(opts, k) THEN GetKey(opts, k) ELSE OrDefault(opts, k, d)

ConstructorOptions(opts, auto) ==
  [maxRetryAttempts |-> Spread(opts, "maxRetryAttempts", DefaultMaxRetryAttempts),
   retryDelay |-> Spread(opts, "retryDelay", DefaultRetryDelay),
   subscriptionTimeout |->
     Spread(opts, "subscriptionTimeout", DefaultSubscriptionTimeout),
   enableAutoSubscribe |-> (auto # "false")]

\* the option objects the model constructs the manager with
OptionChoices == {{<<"maxRetryAttempts", 1>>, <<"retryDelay", 500>>}}
AutoChoices == {"absent", "false"}
\* the per-call options of subscribeToUser
CallOptionChoices == {{}, {<<"maxRetryAttempts", 3>>, <<"retryDelay", 2000>>}}

\* ---- the external client ----
findRemoteUser(targetUid) ==
  LET normalizedTarget == normalizeUID(targetUid)
      found == {p \in Users : client[p].present
                  /\ normalizeUID([form |-> "num", val |-> p]) = normalizedTarget}
  IN IF found = {} THEN 0 ELSE CHOOSE p \in found : TRUE

isBotUser(uid) == uid.val \in botUsers

\* user.hasAudio / user.hasVideo of a participant object
UserHas(p, mediaType) ==
  IF mediaType = "audio" THEN client[p].hasAudio ELSE client[p].hasVideo

\* ---- the engine state threaded through one handler run ----
Cur ==
  [subscriptions |-> subscriptions, subscriptionHistory |-> subscriptionHistory,
   retryTimers |-> retryTimers, timers |-> timers, tasks |-> tasks,
   calls |-> calls, lastLoop |-> lastLoop, lastCall |-> lastCall,
   throwing |-> throwing, thrown |-> FALSE]

\* the handler run that ends in engine E is taken: E is computed once and
\* becomes the next state
Apply(E) ==
  \E S \in {E} :
    /\ S.calls.subscribeAudio + S.calls.subscribeVideo <= callCap
    /\ subscriptions' = S.subscriptions
    /\ subscriptionHistory' = S.subscriptionHistory
    /\ retryTimers' = S.retryTimers
    /\ timers' = S.timers
    /\ tasks' = S.tasks
    /\ calls' = S.calls
    /\ lastLoop' = S.lastLoop
    /\ lastCall' = S.lastCall

Bump(S, field) == [S EXCEPT !.calls[field] = @ + 1]

\* ---- callbacks and exceptions ----
\* S.thrown says that an exception is propagating.
Callbacks ==
  {"onSubscriptionStateChanged", "onSubscriptionSuccess", "onSubscriptionFailed"}

\* this.onX(...): the callback runs, and throws if it is a throwing one
InvokeCallback(S, field) ==
  [Bump(S, field) EXCEPT !.thrown = (field \in S.throwing)]

\* the call site of a callback without its try/catch
CallbackCatch_rethrow(S) == S

\* catch (error) { this._log("error", ...) } around the call of a callback
CallbackCatch(S) == [S EXCEPT !.thrown = FALSE]

\* any other catch block, entered: the exception is consumed
Caught(S) == [S EXCEPT !.thrown = FALSE]

\* ---- registry ----
\* A record that has never been written: every field undefined.  The two
\* subscribed flags are only ever read as `=== true`, `|| false` or by
\* truthiness, so undefined and false are one value here.
EmptyRecord ==
  [user |-> 0, hasAudio |-> FALSE, hasVideo |-> FALSE, state |-> Undefined,
   joinedAt |-> 0, updatedAt |-> 0,
   audioState |-> Undefined, videoState |-> Undefined,
   audioSubscribed |-> FALSE, videoSubscribed |-> FALSE]

\* the info object of every call site: user, hasAudio, hasVideo, state, joinedAt
UserInfo(p, joinedAt) ==
  [user |-> p, hasAudio |-> client[p].hasAudio, hasVideo |-> client[p].hasVideo,
   state |-> NOT_SUBSCRIBED, joinedAt |-> joinedAt]

_isAlreadySubscribed(S, uid, mediaType) ==
  LET normalizedUID == normalizeUID(uid)
  IN IF normalizedUID \notin DOMAIN S.subscriptions THEN FALSE
     ELSE IF mediaType = "audio"
          THEN S.subscriptions[normalizedUID].audioSubscribed
          ELSE IF mediaType = "video"
               THEN S.subscriptions[normalizedUID].videoSubscribed
               ELSE FALSE

_updateSubscriptionInfo(S, uid, info) ==
  LET normalizedUID == normalizeUID(uid)
      existing == IF normalizedUID \in DOMAIN S.subscriptions
                  THEN S.subscriptions[normalizedUID] ELSE EmptyRecord
      updated == [existing EXCEPT !.user = info.user,
                                  !.hasAudio = info.hasAudio,
                                  !.hasVideo = info.hasVideo,
                                  !.state = info.state,
                                  !.joinedAt = info.joinedAt,
                                  !.updatedAt = now]
  IN [S EXCEPT !.subscriptions = Put(@, normalizedUID, updated)]

\* _updateSubscriptionState without its early return, the missing record
\* taken as {} the way _updateSubscriptionInfo does
updateSubscriptionState_creating(S, uid, mediaType, state) ==
  LET normalizedUID == normalizeUID(uid)
      info == IF normalizedUID \in DOMAIN S.subscriptions
              THEN S.subscriptions[normalizedUID] ELSE EmptyRecord
      set == IF mediaType = "audio"
             THEN [info EXCEPT !.audioState = state,
                               !.audioSubscribed = (state = SUBSCRIBED),
                               !.updatedAt = now]
             ELSE [info EXCEPT !.videoState = state,
                               !.videoSubscribed = (state = SUBSCRIBED),
                               !.updatedAt = now]
  IN CallbackCatch(InvokeCallback(
       [S EXCEPT !.subscriptions = Put(@, normalizedUID, set)],
       "onSubscriptionStateChanged"))

_updateSubscriptionState(S, uid, mediaType, state) ==
  LET normalizedUID == normalizeUID(uid)
  IN IF normalizedUID \notin DOMAIN S.subscriptions THEN S
     ELSE LET info == S.subscriptions[normalizedUID]
              set == IF mediaType = "audio"
                     THEN [info EXCEPT !.audioState = state,
                                       !.audioSubscribed = (state = SUBSCRIBED),
                                       !.updatedAt = now]
                     ELSE IF mediaType = "video"
                          THEN [info EXCEPT !.videoState = state,
                                            !.videoSubscribed = (state = SUBSCRIBED),
                                            !.updatedAt = now]
                          ELSE [info EXCEPT !.updatedAt = now]
          IN CallbackCatch(InvokeCallback(
               [S EXCEPT !.subscriptions[normalizedUID] = set],
               "onSubscriptionStateChanged"))

LastN(s, n) == IF Len(s) <= n THEN s ELSE SubSeq(s, Len(s) - n + 1, Len(s))

\* _recordSubscriptionAttempt with the trim keeping one entry too many
recordSubscriptionAttempt_keep51(S, uid, mediaType, success, attempt, errorMessage) ==
  LET record == [uid |-> uid, mediaType |-> mediaType, success |-> success,
                 attempt |-> attempt, timestamp |-> now,
                 errorMessage |-> errorMessage]
      pushed == Append(S.subscriptionHistory, record)
  IN [S EXCEPT !.subscriptionHistory =
        IF Len(pushed) > HistoryLimit THEN LastN(pushed, HistoryKeep + 1)
        ELSE pushed]

_recordSubscriptionAttempt(S, uid, mediaType, success, attempt, errorMessage) ==
  LET record == [uid |-> uid, mediaType |-> mediaType, success |-> success,
                 attempt |-> attempt, timestamp |-> now,
                 errorMessage |-> errorMessage]
      pushed == Append(S.subscriptionHistory, record)
  IN [S EXCEPT !.subscriptionHistory =
        IF Len(pushed) > HistoryLimit THEN LastN(pushed, HistoryKeep)
        ELSE pushed]

\* ---- polling timers ----
\* clearTimeout(id): a pending timer with that id never fires
ClearTimeout(S, id) ==
  [S EXCEPT !.timers = {tm \in @ : tm.tid # id}]

UsedTimerIds(S) ==
  {tm.tid : tm \in S.timers} \cup {S.retryTimers[k] : k \in DOMAIN S.retryTimers}
\* setTimeout returns an id no pending timer has and no map entry holds
FreshTimerId(S) ==
  CHOOSE n \in 1..(Cardinality(UsedTimerIds(S)) + 1) : n \notin UsedTimerIds(S)

_clearBotSubscriptionRetry(S, uid) ==
  IF uid \in DOMAIN S.retryTimers
  THEN [ClearTimeout(S, S.retryTimers[uid]) EXCEPT !.retryTimers = Del(@, uid)]
  ELSE S

\* setTimeout(retry, retryDelay); this.retryTimers.set(uid, timerId)
SetRetryTimer(S, uid, mediaType, attempts, maxAttempts, retryDelay) ==
  LET timerId == FreshTimerId(S)
  IN [S EXCEPT !.timers = @ \cup {[tid |-> timerId, uid |-> uid,
                                   mediaType |-> mediaType,
                                   attempts |-> attempts,
                                   maxAttempts |-> maxAttempts,
                                   retryDelay |-> retryDelay]},
               !.retryTimers = Put(@, uid, timerId)]

BotMaxAttempts ==
  IF options.maxRetryAttempts # 0 THEN options.maxRetryAttempts
  ELSE BotDefaultMaxAttempts
BotRetryDelay ==
  IF options.retryDelay # 0 THEN options.retryDelay ELSE BotDefaultRetryDelay

_scheduleBotSubscriptionRetry(S, uid, mediaType) ==
  SetRetryTimer(_clearBotSubscriptionRetry(S, uid), uid, mediaType, 0,
                BotMaxAttempts, BotRetryDelay)

_cleanupUserSubscription(S, uid) ==
  LET S1 == IF uid \in DOMAIN S.retryTimers
            THEN [ClearTimeout(S, S.retryTimers[uid])
                    EXCEPT !.retryTimers = Del(@, uid)]
            ELSE S
  IN [S1 EXCEPT !.subscriptions = Del(@, uid)]

\* ---- async calls ----
\* A task is one async call of a handler or public operation that is suspended:
\* op/stage say whose call it is and where the inner subscribeToUser was made,
\* pc says what it awaits.  calls, sleeps and entries describe the attempt loop
\* it is in; loops and video count what the whole call has done so far.
UsedTaskIds(S) == {t.id : t \in S.tasks}
FreshTaskId(S) ==
  CHOOSE n \in 1..(Cardinality(UsedTaskIds(S)) + 1) : n \notin UsedTaskIds(S)

NewTask(S, op, uid, mediaType) ==
  [id |-> FreshTaskId(S), op |-> op, stage |-> "api", uid |-> uid, user |-> 0,
   evUser |-> 0, evMediaType |-> mediaType, todo |-> <<>>,
   mediaType |-> mediaType, pc |-> "run", attempt |-> 0, maxAttempts |-> 0,
   retryDelay |-> 0, pollAttempts |-> 0, pollMax |-> 0, pollDelay |-> 0,
   calls |-> 0, sleeps |-> <<>>, entries |-> <<>>,
   outcomes |-> <<>>, loops |-> 0, video |-> 0,
   hadAudio |-> FALSE, wasSubscribed |-> FALSE,
   autoSubscribe |-> options.enableAutoSubscribe]

MediaStateOf(S, uid, mediaType) ==
  IF normalizeUID(uid) \notin DOMAIN S.subscriptions THEN Undefined
  ELSE IF mediaType = "audio" THEN S.subscriptions[normalizeUID(uid)].audioState
       ELSE S.subscriptions[normalizeUID(uid)].videoState

NoLoop ==
  [n |-> 0, uid |-> [form |-> "str", val |-> 1], mediaType |-> "audio",
   val |-> FALSE, maxAttempts |-> 0, retryDelay |-> 0, calls |-> 0,
   sleeps |-> <<>>, entries |-> <<>>, outcomes |-> <<>>, state |-> Undefined]

\* what a call yields to its caller: the state, whether the call is suspended
\* (then S.tasks holds it), the value it returned otherwise, and the task
Result(S, suspended, val, t) ==
  [S |-> S, suspended |-> suspended, val |-> val, t |-> t]

\* _subscribeWithRetry returns val
LoopReturn(S, t, val) ==
  Result([S EXCEPT !.lastLoop =
            [n |-> @.n + 1, uid |-> t.uid, mediaType |-> t.mediaType,
             val |-> val, maxAttempts |-> t.maxAttempts,
             retryDelay |-> t.retryDelay, calls |-> t.calls,
             sleeps |-> t.sleeps, entries |-> t.entries,
             outcomes |-> t.outcomes,
             state |-> MediaStateOf(S, t.uid, t.mediaType)]],
         FALSE, val, t)

\* client.subscribe(user, mediaType) is called
ClientSubscribe(S, mediaType) ==
  Bump(S, IF mediaType = "audio" THEN "subscribeAudio" ELSE "subscribeVideo")

\* The body of the for loop is one try block (455-494) with one catch block
\* (495-532).  AttemptCaught is the catch block, entered with the message of
\* the error: after the last attempt the loop ends and the function returns
\* false.
AttemptCaught(S0, t, errorMessage) ==
  LET S1 == _recordSubscriptionAttempt(Caught(S0), t.uid, t.mediaType, FALSE,
                                       t.attempt, errorMessage)
      t1 == [t EXCEPT !.entries = Append(@, <<FALSE, t.attempt>>)]
  IN IF t.attempt < t.maxAttempts
     THEN LET t2 == [t1 EXCEPT !.pc = "sleep",
                               !.sleeps = Append(@, t.retryDelay * t.attempt)]
          IN Result([S1 EXCEPT !.tasks = @ \cup {t2}], TRUE, FALSE, t2)
     ELSE LET S2 == _updateSubscriptionState(S1, t.uid, t.mediaType,
                                             SUBSCRIPTION_FAILED)
          IN IF S2.thrown THEN LoopReturn(S2, t1, FALSE)
             ELSE LoopReturn(CallbackCatch(InvokeCallback(S2, "onSubscriptionFailed")),
                             [t1 EXCEPT !.attempt = @ + 1], FALSE)

\* the head of the loop with attempt = t.attempt, up to the await of
\* _performSubscription
StartAttempt(S, t) ==
  IF t.attempt <= t.maxAttempts
  THEN LET S1 == _updateSubscriptionState(S, t.uid, t.mediaType, SUBSCRIBING)
           t1 == [t EXCEPT !.pc = "subscribe", !.calls = @ + 1,
                           !.video = IF t.mediaType = "video" THEN @ + 1 ELSE @]
       IN IF S1.thrown THEN AttemptCaught(S1, t, "callback")
          ELSE Result([ClientSubscribe(S1, t.mediaType) EXCEPT
                         !.tasks = @ \cup {t1}], TRUE, FALSE, t1)
  ELSE LoopReturn(S, t, FALSE)

\* _performSubscription settles: "ok" resolves with a track, "empty" resolves
\* with a falsy value, "error" is a rejection of client.subscribe, "timeout" is
\* the rejection after subscriptionTimeout.  Both rejections carry a message,
\* which the loop only copies into the history entry.
Outcomes == {"ok", "empty", "error"}
Rejected(outcome) == outcome \in {"error", "timeout"}

SubscriptionSettled(S0, t0, outcome) ==
  LET S == [S0 EXCEPT !.tasks = @ \ {t0}]
      t == [t0 EXCEPT !.outcomes =
              Append(@, IF Rejected(outcome) THEN "rejected" ELSE outcome)]
  IN IF outcome = "ok"
     THEN LET S1 == _updateSubscriptionState(S, t.uid, t.mediaType, SUBSCRIBED)
              S2 == _recordSubscriptionAttempt(S1, t.uid, t.mediaType, TRUE,
                                               t.attempt, "null")
              S3 == CallbackCatch(InvokeCallback(S2, "onSubscriptionSuccess"))
              t1 == [t EXCEPT !.entries = Append(@, <<TRUE, t.attempt>>)]
          IN IF S1.thrown THEN AttemptCaught(S1, t, "callback")
             ELSE IF S3.thrown THEN AttemptCaught(S3, t1, "callback")
             ELSE LoopReturn(S3, t1, TRUE)
     ELSE IF outcome = "empty"
     THEN StartAttempt(S, [t EXCEPT !.attempt = @ + 1])
     ELSE AttemptCaught(S, t, outcome)

\* _performSubscription without its timeout: the attempt stays pending
TimedOut_stillPending(S0, t) == Result(S0, TRUE, FALSE, t)

\* the setTimeout of _performSubscription rejects the pending attempt
TimedOut(S0, t) == SubscriptionSettled(S0, t, "timeout")

\* the _sleep between two attempts is over
SleepElapsed(S0, t) ==
  StartAttempt([S0 EXCEPT !.tasks = @ \ {t}], [t EXCEPT !.attempt = @ + 1])

_subscribeWithRetry(S, t, uid, user, mediaType, opts) ==
  LET maxAttempts == OrDefault(opts, "maxRetryAttempts", options.maxRetryAttempts)
      retryDelay == OrDefault(opts, "retryDelay", options.retryDelay)
  IN StartAttempt(S, [t EXCEPT !.uid = uid, !.user = user,
                               !.mediaType = mediaType, !.attempt = 1,
                               !.maxAttempts = maxAttempts,
                               !.retryDelay = retryDelay, !.calls = 0,
                               !.sleeps = <<>>, !.entries = <<>>,
                               !.outcomes = <<>>, !.loops = @ + 1])

\* subscribeToUser without the check of the media kind (426-433)
subscribeToUser_anyMedia(S, t, uid, mediaType, opts) ==
  LET normalizedUID == normalizeUID(uid)
      userFromSDK == findRemoteUser(uid)
      known == normalizedUID \in DOMAIN S.subscriptions
      S1 == IF ~known /\ userFromSDK # 0
            THEN _updateSubscriptionInfo(S, uid, UserInfo(userFromSDK, now))
            ELSE S
  IN IF ~known /\ userFromSDK = 0 THEN Result(S, FALSE, FALSE, t)
     ELSE LET user == S1.subscriptions[normalizedUID].user
          IN IF user = 0 THEN Result(S1, FALSE, FALSE, t)
             ELSE IF _isAlreadySubscribed(S1, uid, mediaType)
                  THEN Result(S1, FALSE, TRUE, t)
                  ELSE _subscribeWithRetry(S1, t, uid, user, mediaType, opts)

subscribeToUser(S, t, uid, mediaType, opts) ==
  LET normalizedUID == normalizeUID(uid)
      userFromSDK == findRemoteUser(uid)
      known == normalizedUID \in DOMAIN S.subscriptions
      S1 == IF ~known /\ userFromSDK # 0
            THEN _updateSubscriptionInfo(S, uid, UserInfo(userFromSDK, now))
            ELSE S
  IN IF ~known /\ userFromSDK = 0 THEN Result(S, FALSE, FALSE, t)
     ELSE LET user == S1.subscriptions[normalizedUID].user
          IN IF user = 0 THEN Result(S1, FALSE, FALSE, t)
             ELSE IF ~UserHas(user, mediaType) THEN Result(S1, FALSE, FALSE, t)
             ELSE IF _isAlreadySubscribed(S1, uid, mediaType)
                  THEN Result(S1, FALSE, TRUE, t)
                  ELSE _subscribeWithRetry(S1, t, uid, user, mediaType, opts)

\* ---- the end of a call ----
NoCall ==
  [n |-> 0, op |-> "constructor", uid |-> [form |-> "str", val |-> 1],
   mediaType |-> "audio", val |-> FALSE, loops |-> 0, video |-> 0,
   hadAudio |-> FALSE, wasSubscribed |-> FALSE, autoSubscribe |-> FALSE,
   threw |-> FALSE, pollAttempts |-> 0, stage |-> "api"]

\* the async call t (or the synchronous operation it stands for) has finished:
\* with value val, or, when an exception is propagating, by throwing it to the
\* caller
CallEnd(S, t, val) ==
  [S EXCEPT !.lastCall =
     [n |-> @.n + 1, op |-> t.op, uid |-> t.uid, mediaType |-> t.mediaType,
      val |-> val, loops |-> t.loops, video |-> t.video,
      hadAudio |-> t.hadAudio, wasSubscribed |-> t.wasSubscribed,
      autoSubscribe |-> t.autoSubscribe, threw |-> S.thrown,
      pollAttempts |-> t.pollAttempts, stage |-> t.stage],
     !.thrown = FALSE]

\* ---- user-joined ----
\* subscriptionTypes with the video subscription left in
subscriptionTypes_withVideo(user) ==
  (IF client[user].hasAudio THEN <<"audio">> ELSE <<>>)
    \o (IF client[user].hasVideo THEN <<"video">> ELSE <<>>)

\* the media kinds _attemptAutoSubscription subscribes to
subscriptionTypes(user) ==
  IF client[user].hasAudio THEN <<"audio">> ELSE <<>>

\* the for loop of _attemptAutoSubscription over the kinds left in t.todo
RECURSIVE AutoSubscriptionLoop(_, _)
AutoSubscriptionLoop(S, t) ==
  IF t.todo = <<>> THEN Result(S, FALSE, FALSE, t)
  ELSE LET r == subscribeToUser(S, [t EXCEPT !.todo = Tail(@), !.stage = "auto"],
                                t.uid, Head(t.todo), {})
       IN IF r.suspended \/ r.S.thrown THEN r
          ELSE AutoSubscriptionLoop(r.S, r.t)

_attemptAutoSubscription(S, t) ==
  AutoSubscriptionLoop(S, [t EXCEPT !.todo = subscriptionTypes(t.evUser)])

\* the safety net for automated participants at the end of _handleUserJoined,
\* a try block whose catch only logs
JoinedBotPart(S, t) ==
  IF client[t.evUser].hasAudio /\ isBotUser(t.uid)
  THEN LET r == subscribeToUser(S, [t EXCEPT !.stage = "bot"], t.uid, "audio", {})
       IN IF r.suspended THEN r.S ELSE CallEnd(Caught(r.S), r.t, r.val)
  ELSE CallEnd(S, t, FALSE)

\* _handleUserJoined after its await of _attemptAutoSubscription, which is
\* outside any try block
JoinedAfterAuto(r) ==
  IF r.suspended THEN r.S
  ELSE IF r.S.thrown THEN CallEnd(r.S, r.t, FALSE)
  ELSE JoinedBotPart(r.S, r.t)

_handleUserJoined(S, user, uid) ==
  LET t == [NewTask(S, "joined", uid, "audio") EXCEPT
              !.evUser = user, !.hadAudio = client[user].hasAudio,
              !.wasSubscribed = _isAlreadySubscribed(S, uid, "audio")]
      S1 == _updateSubscriptionInfo(S, uid, UserInfo(user, now))
  IN IF options.enableAutoSubscribe
        /\ (client[user].hasAudio \/ client[user].hasVideo)
     THEN JoinedAfterAuto(_attemptAutoSubscription(S1, t))
     ELSE JoinedBotPart(S1, t)

\* ---- user-published ----
\* _handleUserPublished after the await of subscribeToUser in its try block:
\* the catch block starts the polling
PublishedAfterBotSubscribe(r) ==
  IF r.suspended THEN r.S
  ELSE IF r.S.thrown
       THEN CallEnd(_scheduleBotSubscriptionRetry(Caught(r.S), r.t.uid,
                                                  r.t.evMediaType), r.t, FALSE)
  ELSE CallEnd(r.S, r.t, r.val)

\* the check and retry for automated participants at the end of
\* _handleUserPublished
PublishedBotPart(S, t) ==
  IF t.evMediaType = "audio" /\ isBotUser(t.uid)
  THEN LET isSubscribed == _isAlreadySubscribed(S, t.uid, t.evMediaType)
           hasAudioTrack == client[t.evUser].hasAudio
       IN IF ~isSubscribed /\ ~hasAudioTrack
          THEN CallEnd(_scheduleBotSubscriptionRetry(S, t.uid, t.evMediaType),
                       t, FALSE)
          ELSE IF ~isSubscribed /\ hasAudioTrack
          THEN PublishedAfterBotSubscribe(
                 subscribeToUser(S, [t EXCEPT !.stage = "bot"], t.uid,
                                 t.evMediaType, {}))
          ELSE CallEnd(S, t, FALSE)
  ELSE CallEnd(S, t, FALSE)

\* _handleUserPublished after its first await of subscribeToUser, which is
\* outside any try block
PublishedAfterAuto(r) ==
  IF r.suspended THEN r.S
  ELSE IF r.S.thrown THEN CallEnd(r.S, r.t, FALSE)
  ELSE PublishedBotPart(r.S, r.t)

\* _handleUserPublished subscribing to audio whatever enableAutoSubscribe is
handleUserPublished_noPolicy(S, user, uid, mediaType) ==
  LET normalizedUID == normalizeUID(uid)
      t == [NewTask(S, "published", uid, mediaType) EXCEPT
              !.evUser = user, !.evMediaType = mediaType,
              !.hadAudio = client[user].hasAudio,
              !.wasSubscribed = _isAlreadySubscribed(S, uid, mediaType)]
      S1 == IF normalizedUID \in DOMAIN S.subscriptions
            THEN [S EXCEPT !.subscriptions[normalizedUID] =
                    [@ EXCEPT !.hasAudio = client[user].hasAudio,
                              !.hasVideo = client[user].hasVideo,
                              !.user = user]]
            ELSE _updateSubscriptionInfo(S, uid, UserInfo(user, now))
  IN IF mediaType = "audio"
     THEN PublishedAfterAuto(subscribeToUser(S1, [t EXCEPT !.stage = "auto"],
                                             uid, mediaType, {}))
     ELSE PublishedBotPart(S1, t)

_handleUserPublished(S, user, uid, mediaType) ==
  LET normalizedUID == normalizeUID(uid)
      t == [NewTask(S, "published", uid, mediaType) EXCEPT
              !.evUser = user, !.evMediaType = mediaType,
              !.hadAudio = client[user].hasAudio,
              !.wasSubscribed = _isAlreadySubscribed(S, uid, mediaType)]
      S1 == IF normalizedUID \in DOMAIN S.subscriptions
            THEN [S EXCEPT !.subscriptions[normalizedUID] =
                    [@ EXCEPT !.hasAudio = client[user].hasAudio,
                              !.hasVideo = client[user].hasVideo,
                              !.user = user]]
            ELSE _updateSubscriptionInfo(S, uid, UserInfo(user, now))
  IN IF options.enableAutoSubscribe /\ mediaType = "audio"
     THEN PublishedAfterAuto(subscribeToUser(S1, [t EXCEPT !.stage = "auto"],
                                             uid, mediaType, {}))
     ELSE PublishedBotPart(S1, t)

\* ---- user-unpublished, user-left ----
_handleUserUnpublished(S, user, uid, mediaType) ==
  LET normalizedUID == normalizeUID(uid)
      S1 == IF normalizedUID \in DOMAIN S.subscriptions
            THEN IF mediaType = "audio"
                 THEN [S EXCEPT !.subscriptions[normalizedUID] =
                         [@ EXCEPT !.hasAudio = FALSE, !.audioSubscribed = FALSE]]
                 ELSE IF mediaType = "video"
                 THEN [S EXCEPT !.subscriptions[normalizedUID] =
                         [@ EXCEPT !.hasVideo = FALSE, !.videoSubscribed = FALSE]]
                 ELSE S
            ELSE S
  IN CallEnd(S1, NewTask(S, "unpublished", uid, mediaType), FALSE)

_handleUserLeft(S, user, uid) ==
  CallEnd(_cleanupUserSubscription(S, uid), NewTask(S, "left", uid, "audio"),
          FALSE)

\* ---- the polling retry of automated participants ----
\* the tail of retry(): schedule the next poll or give up
PollReschedule(S, t) ==
  IF t.pollAttempts < t.pollMax
  THEN CallEnd(SetRetryTimer(S, t.uid, t.evMediaType, t.pollAttempts, t.pollMax,
                             t.pollDelay), t, FALSE)
  ELSE CallEnd(_clearBotSubscriptionRetry(S, t.uid), t, FALSE)

\* retry() after its await of subscribeToUser, in a try block whose catch only
\* logs
PollAfterSubscribe(S, t, success) ==
  IF S.thrown THEN PollReschedule(Caught(S), t)
  ELSE IF success THEN CallEnd(_clearBotSubscriptionRetry(S, t.uid), t, TRUE)
  ELSE PollReschedule(S, t)

\* retry() of the closure carried by the timer tm, which has just fired
retry(S0, tm) ==
  LET S == [S0 EXCEPT !.timers = @ \ {tm}]
      t == [NewTask(S, "poll", tm.uid, tm.mediaType) EXCEPT
              !.stage = "poll", !.pollAttempts = tm.attempts + 1,
              !.pollMax = tm.maxAttempts, !.pollDelay = tm.retryDelay,
              !.wasSubscribed = _isAlreadySubscribed(S0, tm.uid, tm.mediaType)]
      agoraUser == findRemoteUser(tm.uid)
  IN IF agoraUser # 0
     THEN LET hasAudioTrack == client[agoraUser].hasAudio
              isSubscribed == _isAlreadySubscribed(S, tm.uid, tm.mediaType)
              t1 == [t EXCEPT !.hadAudio = hasAudioTrack]
          IN IF hasAudioTrack /\ ~isSubscribed
             THEN LET r == subscribeToUser(S, t1, tm.uid, tm.mediaType, {})
                  IN IF r.suspended THEN r.S
                     ELSE PollAfterSubscribe(r.S, r.t, r.val)
             ELSE IF ~hasAudioTrack THEN PollReschedule(S, t1)
             ELSE CallEnd(_clearBotSubscriptionRetry(S, tm.uid), t1, FALSE)
     ELSE CallEnd(_clearBotSubscriptionRetry(S, tm.uid), t, FALSE)

\* the for loop of checkBotUsersForRetry over the users in rest; form[p] is
\* the representation of agoraUser.uid
RECURSIVE CheckBotUsersLoop(_, _, _)
CheckBotUsersLoop(S, rest, form) ==
  IF rest = {} THEN S
  ELSE LET p == CHOOSE q \in rest : \A r \in rest : q <= r
           uid == [form |-> form[p], val |-> p]
           S1 == IF client[p].present /\ client[p].hasAudio /\ isBotUser(uid)
                    /\ ~_isAlreadySubscribed(S, uid, "audio")
                 THEN _scheduleBotSubscriptionRetry(S, uid, "audio")
                 ELSE S
       IN CheckBotUsersLoop(S1, rest \ {p}, form)

checkBotUsersForRetry(S, form) ==
  CallEnd(CheckBotUsersLoop(S, Users, form),
          NewTask(S, "checkBotUsersForRetry", [form |-> "str", val |-> 1], "audio"),
          FALSE)

\* ---- unsubscribeFromUser ----
\* unsubscribeFromUser without the early return for an unknown participant
unsubscribeFromUser_noGuard(S, t, uid, mediaType) ==
  LET S1 == _updateSubscriptionState(S, uid, mediaType, UNSUBSCRIBING)
      S2 == Bump(S1, "unsubscribe")
      t1 == [t EXCEPT !.pc = "unsubscribe"]
  IN Result([S2 EXCEPT !.tasks = @ \cup {t1}], TRUE, FALSE, t1)

\* the catch block of unsubscribeFromUser; it returns false unless its own
\* state update throws
UnsubscribeCaught(S, t) ==
  Result(_updateSubscriptionState(Caught(S), t.uid, t.mediaType,
                                  SUBSCRIPTION_FAILED), FALSE, FALSE, t)

unsubscribeFromUser(S, t, uid, mediaType) ==
  LET normalizedUID == normalizeUID(uid)
  IN IF normalizedUID \notin DOMAIN S.subscriptions
     THEN Result(S, FALSE, FALSE, t)
     ELSE LET user == S.subscriptions[normalizedUID].user
          IN IF user = 0 THEN Result(S, FALSE, FALSE, t)
             ELSE LET S1 == _updateSubscriptionState(S, uid, mediaType,
                                                     UNSUBSCRIBING)
                      S2 == Bump(S1, "unsubscribe")
                      t1 == [t EXCEPT !.pc = "unsubscribe", !.user = user]
                  IN IF S1.thrown THEN UnsubscribeCaught(S1, t)
                     ELSE Result([S2 EXCEPT !.tasks = @ \cup {t1}], TRUE, FALSE,
                                 t1)

\* client.unsubscribe settles: "ok" resolves, "error" rejects
UnsubscribeOutcomes == {"ok", "error"}

UnsubscribeSettled(S0, t, outcome) ==
  LET S == [S0 EXCEPT !.tasks = @ \ {t}]
      S1 == _updateSubscriptionState(S, t.uid, t.mediaType, NOT_SUBSCRIBED)
      r == IF outcome = "ok" /\ ~S1.thrown THEN Result(S1, FALSE, TRUE, t)
           ELSE UnsubscribeCaught(IF outcome = "ok" THEN S1 ELSE S, t)
  IN CallEnd(r.S, r.t, r.val)

\* ---- introspection ----
\* getUserSubscriptionInfo without the uid it echoes; "null" when unknown
getUserSubscriptionInfo(uid) ==
  LET normalizedUID == normalizeUID(uid)
  IN IF normalizedUID \notin DOMAIN subscriptions THEN <<"null">>
     ELSE LET info == subscriptions[normalizedUID]
          IN <<info.hasAudio, info.hasVideo, info.audioSubscribed,
               info.videoSubscribed,
               IF info.audioState = Undefined THEN NOT_SUBSCRIBED
               ELSE info.audioState,
               IF info.videoState = Undefined THEN NOT_SUBSCRIBED
               ELSE info.videoState,
               info.joinedAt, info.updatedAt>>

\* ---- destroy ----
RECURSIVE ClearAllRetryTimers(_, _)
ClearAllRetryTimers(S, keys) ==
  IF keys = {} THEN S
  ELSE LET k == CHOOSE x \in keys : TRUE
       IN ClearAllRetryTimers(ClearTimeout(S, S.retryTimers[k]), keys \ {k})

destroy(S) ==
  LET S1 == ClearAllRetryTimers(S, DOMAIN S.retryTimers)
      S2 == [S1 EXCEPT !.retryTimers = EmptyMap, !.subscriptions = EmptyMap,
                       !.subscriptionHistory = <<>>]
  IN CallEnd(S2, NewTask(S, "destroy", [form |-> "str", val |-> 1], "audio"),
             FALSE)

\* ---- what follows the return of an awaited subscribeToUser ----
AfterSubscribe(r) ==
  IF r.suspended THEN r.S
  ELSE IF r.t.op = "joined" /\ r.t.stage = "auto"
       THEN JoinedAfterAuto(IF r.S.thrown THEN r
                            ELSE AutoSubscriptionLoop(r.S, r.t))
  ELSE IF r.t.op = "joined" THEN CallEnd(Caught(r.S), r.t, r.val)
  ELSE IF r.t.op = "published" /\ r.t.stage = "auto" THEN PublishedAfterAuto(r)
  ELSE IF r.t.op = "published" THEN PublishedAfterBotSubscribe(r)
  ELSE IF r.t.op = "poll" THEN PollAfterSubscribe(r.S, r.t, r.val)
  ELSE CallEnd(r.S, r.t, r.val)

\* ---- construction ----
\* what the client reports of a participant; one it does not list has no media
ClientUser ==
  {u \in [present : BOOLEAN, hasAudio : BOOLEAN, hasVideo : BOOLEAN] :
     ~u.present => (~u.hasAudio /\ ~u.hasVideo)}

NoCalls ==
  [subscribeAudio |-> 0, subscribeVideo |-> 0, unsubscribe |-> 0,
   onSubscriptionStateChanged |-> 0, onSubscriptionSuccess |-> 0,
   onSubscriptionFailed |-> 0]

EmptyEngine ==
  [subscriptions |-> EmptyMap, subscriptionHistory |-> <<>>,
   retryTimers |-> EmptyMap, timers |-> {}, tasks |-> {}, calls |-> NoCalls,
   lastLoop |-> NoLoop, lastCall |-> NoCall, throwing |-> {},
   thrown |-> FALSE]

\* what new Date() yields during construction; every later operation runs at
\* a later instant
ConstructionTime == 0

RECURSIVE SeedLoop(_, _)
SeedLoop(S, rest) ==
  IF rest = {} THEN S
  ELSE LET u == CHOOSE q \in rest : \A r \in rest : q <= r
           uid == normalizeUID([form |-> "num", val |-> u])
           S1 == IF client[u].present /\ uid \notin DOMAIN S.subscriptions
                 THEN [_updateSubscriptionInfo(S, [form |-> "num", val |-> u],
                                               UserInfo(u, ConstructionTime))
                         EXCEPT !.subscriptions[uid].updatedAt = ConstructionTime]
                 ELSE S
       IN SeedLoop(S1, rest \ {u})

_seedExistingRemoteUsers(S) == SeedLoop(S, Users)

\* the state after new WebSubscriptionManager(client, options) and the
\* assignment of the callbacks; those in T are functions that throw
ConstructedWith(opts, auto, events, cap, T) ==
  /\ options = ConstructorOptions(opts, auto)
  /\ handlersBound = TRUE
  /\ throwing = T
  /\ departed = {}
  /\ now = 1
  /\ budget = events
  /\ callCap = cap
  /\ LET S == _seedExistingRemoteUsers(EmptyEngine)
     IN /\ subscriptions = S.subscriptions
        /\ subscriptionHistory = S.subscriptionHistory
        /\ retryTimers = S.retryTimers
        /\ timers = S.timers
        /\ tasks = S.tasks
        /\ calls = S.calls
        /\ lastLoop = S.lastLoop
        /\ lastCall = S.lastCall

Constructed(opts, auto, events, cap) ==
  ConstructedWith(opts, auto, events, cap, {})

\* new WebSubscriptionManager(client, options) on any client
InitWith(events) ==
  /\ client \in [Users -> ClientUser]
  /\ botUsers \in SUBSET Users
  /\ \E opts \in OptionChoices, auto \in AutoChoices :
       Constructed(opts, auto, events, MaxSubscribeCalls)

Init == InitWith(MaxEvents)
InitRace == InitWith(MaxRaceEvents)

\* ---- actions ----
\* an operation the environment starts; each starts at a later instant
EventFrame ==
  /\ budget > 0
  /\ budget' = budget - 1
  /\ now' = now + 1
  /\ UNCHANGED <<client, botUsers, throwing, callCap>>

ResumeFrame ==
  UNCHANGED <<client, botUsers, options, handlersBound, throwing, departed,
              budget, callCap, now>>

\* the client changes what it reports of participant p
ClientChanges(p, u) ==
  /\ u # client[p]
  /\ client' = [client EXCEPT ![p] = u]
  /\ departed' = IF u.present THEN departed \ {p} ELSE departed
  /\ UNCHANGED <<botUsers, options, handlersBound, subscriptions,
                 subscriptionHistory, retryTimers, timers, tasks, calls,
                 lastLoop, lastCall, throwing, budget, callCap, now>>

UserJoined(p, f) ==
  /\ handlersBound
  /\ EventFrame
  /\ Apply(_handleUserJoined(Cur, p, [form |-> f, val |-> p]))
  /\ departed' = departed \ {p}
  /\ UNCHANGED <<options, handlersBound>>

UserPublished(p, f, mediaType) ==
  /\ handlersBound
  /\ EventFrame
  /\ Apply(_handleUserPublished(Cur, p, [form |-> f, val |-> p], mediaType))
  /\ departed' = departed \ {p}
  /\ UNCHANGED <<options, handlersBound>>

UserUnpublished(p, f, mediaType) ==
  /\ handlersBound
  /\ EventFrame
  /\ Apply(_handleUserUnpublished(Cur, p, [form |-> f, val |-> p], mediaType))
  /\ UNCHANGED <<options, handlersBound, departed>>

UserLeft(p, f) ==
  /\ handlersBound
  /\ EventFrame
  /\ Apply(_handleUserLeft(Cur, p, [form |-> f, val |-> p]))
  /\ departed' = IF client[p].present THEN departed ELSE departed \cup {p}
  /\ UNCHANGED <<options, handlersBound>>

SubscribeToUser(uid, mediaType, opts) ==
  /\ EventFrame
  /\ Apply(AfterSubscribe(subscribeToUser(
       Cur, NewTask(Cur, "subscribeToUser", uid, mediaType), uid, mediaType,
       opts)))
  /\ UNCHANGED <<options, handlersBound, departed>>

UnsubscribeFromUser(uid, mediaType) ==
  /\ EventFrame
  /\ LET r == unsubscribeFromUser(
                Cur, NewTask(Cur, "unsubscribeFromUser", uid, mediaType), uid,
                mediaType)
     IN Apply(IF r.suspended THEN r.S ELSE CallEnd(r.S, r.t, r.val))
  /\ UNCHANGED <<options, handlersBound, departed>>

CheckBotUsersForRetry(form) ==
  /\ EventFrame
  /\ Apply(checkBotUsersForRetry(Cur, form))
  /\ UNCHANGED <<options, handlersBound, departed>>

SetAutoSubscribe(enabled) ==
  /\ EventFrame
  /\ enabled # options.enableAutoSubscribe
  /\ options' = [options EXCEPT !.enableAutoSubscribe = enabled]
  /\ Apply(CallEnd(Cur, NewTask(Cur, "setAutoSubscribe",
                                [form |-> "str", val |-> 1], "audio"), enabled))
  /\ UNCHANGED <<handlersBound, departed>>

Destroy ==
  /\ handlersBound
  /\ EventFrame
  /\ handlersBound' = FALSE
  /\ Apply(destroy(Cur))
  /\ UNCHANGED <<options, departed>>

\* the await of _performSubscription in task t settles
SubscriptionSettles(t, outcome) ==
  /\ t \in tasks
  /\ t.pc = "subscribe"
  /\ ResumeFrame
  /\ Apply(AfterSubscribe(SubscriptionSettled(Cur, t, outcome)))

\* the timeout of _performSubscription fires before client.subscribe settles
SubscriptionTimesOut(t) ==
  /\ t \in tasks
  /\ t.pc = "subscribe"
  /\ ResumeFrame
  /\ Apply(AfterSubscribe(TimedOut(Cur, t)))

SleepElapses(t) ==
  /\ t \in tasks
  /\ t.pc = "sleep"
  /\ ResumeFrame
  /\ Apply(AfterSubscribe(SleepElapsed(Cur, t)))

UnsubscribeSettles(t, outcome) ==
  /\ t \in tasks
  /\ t.pc = "unsubscribe"
  /\ ResumeFrame
  /\ Apply(UnsubscribeSettled(Cur, t, outcome))

TimerFires(tm) ==
  /\ tm \in timers
  /\ ResumeFrame
  /\ Apply(retry(Cur, tm))

Next ==
  \/ \E p \in Users, u \in ClientUser : ClientChanges(p, u)
  \/ \E p \in Users, f \in Forms : UserJoined(p, f)
  \/ \E p \in Users, f \in Forms, m \in SubscriptionType : UserPublished(p, f, m)
  \/ \E p \in Users, f \in Forms, m \in SubscriptionType : UserUnpublished(p, f, m)
  \/ \E p \in Users, f \in Forms : UserLeft(p, f)
  \/ \E uid \in UID, m \in SubscriptionType, opts \in CallOptionChoices :
       SubscribeToUser(uid, m, opts)
  \/ \E uid \in UID, m \in SubscriptionType : UnsubscribeFromUser(uid, m)
  \/ \E form \in [Users -> Forms] : CheckBotUsersForRetry(form)
  \/ \E enabled \in BOOLEAN : SetAutoSubscribe(enabled)
  \/ Destroy
  \/ \E t \in tasks, outcome \in Outcomes : SubscriptionSettles(t, outcome)
  \/ \E t \in tasks : SubscriptionTimesOut(t)
  \/ \E t \in tasks : SleepElapses(t)
  \/ \E t \in tasks, outcome \in UnsubscribeOutcomes : UnsubscribeSettles(t, outcome)
  \/ \E tm \in timers : TimerFires(tm)

Spec == Init /\ [][Next]_vars

\* the same machine with room for two operations of the environment
SpecRace == InitRace /\ [][Next]_vars

\* ---- a long run of failing subscriptions ----
\* A default-constructed manager, one participant with audio, and a client
\* whose subscribe always rejects: subscribeToUser is called again and again,
\* one call at a time.
HistoryUid == [form |-> "num", val |-> 1]

InitHistory ==
  /\ client = [p \in Users |->
                 [present |-> TRUE, hasAudio |-> TRUE, hasVideo |-> FALSE]]
  /\ botUsers = {}
  /\ Constructed({}, "absent", MaxHistoryCalls,
                 MaxHistoryCalls * DefaultMaxRetryAttempts)

NextCall == tasks = {} /\ SubscribeToUser(HistoryUid, "audio", {})

NextHistory ==
  \/ NextCall
  \/ \E t \in tasks : SubscriptionSettles(t, "error")
  \/ \E t \in tasks : SleepElapses(t)

SpecHistory == InitHistory /\ [][NextHistory]_vars

\* ---- polling of one automated participant ----
\* A manager constructed with two attempts and a delay of 500, so that a poll
\* has two iterations; the one participant is automated and the client always
\* delivers its id as a string. The environment publishes its audio, lets it
\* leave, and calls checkBotUsersForRetry; client.subscribe resolves or
\* rejects.
PollingForm == "str"
PollingOptions == {<<"maxRetryAttempts", 2>>, <<"retryDelay", 500>>}

InitPolling ==
  /\ client \in [Users -> {u \in ClientUser : u.present /\ ~u.hasVideo}]
  /\ botUsers = Users
  /\ Constructed(PollingOptions, "absent", MaxPollEvents, MaxPollCalls)

NextPolling ==
  \/ \E p \in Users, u \in {v \in ClientUser : ~v.hasVideo} : ClientChanges(p, u)
  \/ \E p \in Users : UserPublished(p, PollingForm, "audio")
  \/ \E p \in Users : UserLeft(p, PollingForm)
  \/ CheckBotUsersForRetry([p \in Users |-> PollingForm])
  \/ \E t \in tasks, outcome \in {"ok", "error"} : SubscriptionSettles(t, outcome)
  \/ \E t \in tasks : SleepElapses(t)
  \/ \E tm \in timers : TimerFires(tm)

SpecPolling == InitPolling /\ [][NextPolling]_vars

\* ---- one participant publishing and unpublishing its audio ----
\* A participant that is not automated, present at construction, whose id the
\* client always delivers as a string: the environment subscribes to its
\* audio, and the participant unpublishes and publishes it.
MediaUid == [form |-> "str", val |-> 1]

InitMedia ==
  /\ client \in [Users -> {u \in ClientUser : u.present /\ ~u.hasVideo}]
  /\ botUsers = {}
  /\ \E opts \in OptionChoices, auto \in AutoChoices :
       Constructed(opts, auto, MaxMediaEvents, MaxMediaCalls)

NextMedia ==
  \/ \E u \in {v \in ClientUser : v.present /\ ~v.hasVideo} :
       ClientChanges(MediaUid.val, u)
  \/ UserPublished(MediaUid.val, MediaUid.form, "audio")
  \/ UserUnpublished(MediaUid.val, MediaUid.form, "audio")
  \/ SubscribeToUser(MediaUid, "audio", {})
  \/ \E t \in tasks, outcome \in {"ok", "error"} : SubscriptionSettles(t, outcome)

SpecMedia == InitMedia /\ [][NextMedia]_vars

\* ---- teardown ----
\* The manager of the polling scenario, with destroy(): the environment
\* publishes the audio of the automated participant, polls run, and destroy()
\* is called at any moment, also while a call is suspended.  After destroy()
\* the application makes no further call; only what is already suspended or
\* scheduled goes on.
InitTeardown ==
  /\ client \in [Users -> {u \in ClientUser : u.present /\ ~u.hasVideo}]
  /\ botUsers = Users
  /\ Constructed(PollingOptions, "absent", MaxTeardownEvents, MaxTeardownCalls)

NextTeardown ==
  \/ \E p \in Users, u \in {v \in ClientUser : v.present /\ ~v.hasVideo} :
       ClientChanges(p, u)
  \/ \E p \in Users : UserPublished(p, PollingForm, "audio")
  \/ Destroy
  \/ \E t \in tasks, outcome \in {"ok", "error"} : SubscriptionSettles(t, outcome)
  \/ \E t \in tasks : SleepElapses(t)
  \/ \E tm \in timers : TimerFires(tm)

SpecTeardown == InitTeardown /\ [][NextTeardown]_vars

\* ---- polling with the default configuration ----
\* A manager constructed with no options.  The one participant is automated
\* and its audio never becomes available: the client reports hasAudio = false
\* throughout, while user-published(audio) arrives for it, as a number or as
\* a string, and the polling timers fire.
InitDefaults ==
  /\ client \in [Users -> {u \in ClientUser : u.present /\ ~u.hasAudio}]
  /\ botUsers = Users
  /\ \E auto \in AutoChoices : Constructed({}, auto, MaxDefaultEvents, 0)

NextDefaults ==
  \/ \E p \in Users, f \in Forms : UserPublished(p, f, "audio")
  \/ \E tm \in timers : TimerFires(tm)

SpecDefaults == InitDefaults /\ [][NextDefaults]_vars

\* ---- an automated participant publishing its audio ----
\* The manager of the polling scenario, auto-subscribe enabled or disabled,
\* and the automated participant stays in the channel: its audio is published,
\* the client reports the audio flag either way, client.subscribe resolves or
\* rejects, sleeps end and polling timers fire.
InitFallback ==
  /\ client \in [Users -> {u \in ClientUser : u.present /\ ~u.hasVideo}]
  /\ botUsers = Users
  /\ \E auto \in AutoChoices :
       Constructed(PollingOptions, auto, MaxFallbackEvents, MaxFallbackCalls)

NextFallback ==
  \/ \E p \in Users, u \in {v \in ClientUser : v.present /\ ~v.hasVideo} :
       ClientChanges(p, u)
  \/ \E p \in Users : UserPublished(p, PollingForm, "audio")
  \/ \E t \in tasks, outcome \in {"ok", "error"} : SubscriptionSettles(t, outcome)
  \/ \E t \in tasks : SleepElapses(t)
  \/ \E tm \in timers : TimerFires(tm)

SpecFallback == InitFallback /\ [][NextFallback]_vars

\* ---- the auto-subscribe policy ----
\* Any client, the participant automated or not, auto-subscribe enabled or
\* disabled by configuration and switched by setAutoSubscribe; the client
\* delivers user-joined and user-published with the id in either form, and
\* client.subscribe resolves or rejects.
InitPolicy ==
  /\ client \in [Users -> ClientUser]
  /\ botUsers \in SUBSET Users
  /\ \E opts \in OptionChoices, auto \in AutoChoices :
       Constructed(opts, auto, MaxPolicyEvents, MaxPolicyCalls)

NextPolicy ==
  \/ \E p \in Users, f \in Forms : UserJoined(p, f)
  \/ \E p \in Users, f \in Forms, m \in SubscriptionType : UserPublished(p, f, m)
  \/ \E enabled \in BOOLEAN : SetAutoSubscribe(enabled)
  \/ \E t \in tasks, outcome \in {"ok", "error"} : SubscriptionSettles(t, outcome)

SpecPolicy == InitPolicy /\ [][NextPolicy]_vars

\* ---- unsubscribing ----
\* Any client and a manager that does not subscribe by itself; participants
\* that are not automated join and leave with the id in either form, and
\* unsubscribeFromUser is called for any id and media kind, known or not;
\* client.unsubscribe resolves or rejects.
InitUnsubscribe ==
  /\ client \in [Users -> ClientUser]
  /\ botUsers = {}
  /\ \E opts \in OptionChoices :
       Constructed(opts, "false", MaxUnsubscribeEvents, 0)

NextUnsubscribe ==
  \/ \E p \in Users, u \in ClientUser : ClientChanges(p, u)
  \/ \E p \in Users, f \in Forms : UserJoined(p, f)
  \/ \E p \in Users, f \in Forms : UserLeft(p, f)
  \/ \E uid \in UID, m \in SubscriptionType : UnsubscribeFromUser(uid, m)
  \/ \E t \in tasks, outcome \in UnsubscribeOutcomes : UnsubscribeSettles(t, outcome)

SpecUnsubscribe == InitUnsubscribe /\ [][NextUnsubscribe]_vars

\* ---- polling to its end ----
\* The manager of the polling scenario and its automated participant, whose
\* audio the client reports either way and which the client may stop listing.
\* Polling is started by user-published and by checkBotUsersForRetry, with the
\* id in either form, one operation at a time: the next one starts when no
\* call is suspended (a polling timer may be pending).  client.subscribe
\* resolves, or the timeout of the attempt fires.
\* An operation makes at most six client.subscribe calls (an attempt loop
\* and then two polls, of two attempts each), so the cap on calls never binds.
InitRetry ==
  /\ client \in [Users -> {u \in ClientUser : ~u.hasVideo}]
  /\ botUsers = Users
  /\ Constructed(PollingOptions, "absent", MaxRetryEvents, 6 * MaxRetryEvents)

NextRetry ==
  \/ \E p \in Users, u \in {v \in ClientUser : ~v.hasVideo} : ClientChanges(p, u)
  \/ \E p \in Users, f \in Forms : tasks = {} /\ UserPublished(p, f, "audio")
  \/ \E f \in Forms : tasks = {} /\ CheckBotUsersForRetry([p \in Users |-> f])
  \/ \E t \in tasks : SubscriptionSettles(t, "ok")
  \/ \E t \in tasks : SubscriptionTimesOut(t)
  \/ \E t \in tasks : SleepElapses(t)
  \/ \E tm \in timers : TimerFires(tm)

\* The timers of the runtime fire: a pending polling timer, the timeout of a
\* pending attempt and the sleep between two attempts do elapse.
SpecRetry ==
  /\ InitRetry
  /\ [][NextRetry]_vars
  /\ WF_vars(\E tm \in timers : TimerFires(tm))
  /\ WF_vars(\E t \in tasks : SubscriptionTimesOut(t))
  /\ WF_vars(\E t \in tasks : SleepElapses(t))

\* ---- a participant leaving during its subscription ----
\* One participant without video, automated or not, and a manager with
\* auto-subscribe enabled.  It joins and leaves with the id in either form,
\* subscribeToUser is called for its audio or video, the client reports its
\* audio either way and stops or resumes listing it, and client.subscribe
\* resolves or rejects.
InitDepart ==
  /\ client \in [Users -> {u \in ClientUser : ~u.hasVideo}]
  /\ botUsers \in SUBSET Users
  /\ \E opts \in OptionChoices :
       Constructed(opts, "absent", MaxDepartEvents, MaxDepartCalls)

NextDepart ==
  \/ \E p \in Users, u \in {v \in ClientUser : ~v.hasVideo} : ClientChanges(p, u)
  \/ \E p \in Users, f \in Forms : UserJoined(p, f)
  \/ \E p \in Users, f \in Forms : UserLeft(p, f)
  \/ \E uid \in UID, m \in SubscriptionType : SubscribeToUser(uid, m, {})
  \/ \E t \in tasks, outcome \in {"ok", "error"} : SubscriptionSettles(t, outcome)

SpecDepart == InitDepart /\ [][NextDepart]_vars

\* ---- callbacks that throw ----
\* The application has assigned the three callbacks, and any of them may be a
\* function that throws.  One participant with audio that is not automated;
\* subscribeToUser and unsubscribeFromUser are called for it, one call at a
\* time, and the calls of the client resolve, resolve empty, reject or time
\* out.
CallbackUid == [form |-> "str", val |-> 1]

InitCallbacks ==
  /\ client = [p \in Users |->
                 [present |-> TRUE, hasAudio |-> TRUE, hasVideo |-> FALSE]]
  /\ botUsers = {}
  /\ \E opts \in OptionChoices \cup {{<<"maxRetryAttempts", 2>>}},
        T \in SUBSET Callbacks :
       ConstructedWith(opts, "absent", MaxCallbackEvents, MaxCallbackCalls, T)

NextCallbacks ==
  \/ tasks = {} /\ SubscribeToUser(CallbackUid, "audio", {})
  \/ tasks = {} /\ UnsubscribeFromUser(CallbackUid, "audio")
  \/ \E t \in tasks, outcome \in Outcomes : SubscriptionSettles(t, outcome)
  \/ \E t \in tasks : SubscriptionTimesOut(t)
  \/ \E t \in tasks : SleepElapses(t)
  \/ \E t \in tasks, outcome \in UnsubscribeOutcomes :
       UnsubscribeSettles(t, outcome)

SpecCallbacks == InitCallbacks /\ [][NextCallbacks]_vars

\* ---- explicit calls against a client that may never answer ----
\* One participant with audio and video that is not automated; subscribeToUser
\* is called for either kind, with and without per-call options, one call at a
\* time; each client.subscribe
\* resolves, rejects or stays pending.  The timers of the runtime fire: the
\* timeout of a pending attempt and the sleep between two attempts do elapse.
TimeoutUid == [form |-> "str", val |-> 1]

InitTimeout ==
  /\ client = [p \in Users |->
                 [present |-> TRUE, hasAudio |-> TRUE, hasVideo |-> TRUE]]
  /\ botUsers = {}
  /\ \E opts \in OptionChoices :
       Constructed(opts, "absent", MaxTimeoutCalls,
                   MaxTimeoutCalls * DefaultMaxRetryAttempts)

NextTimeoutCall ==
  /\ tasks = {}
  /\ \E m \in SubscriptionType, opts \in CallOptionChoices :
       SubscribeToUser(TimeoutUid, m, opts)

NextTimeout ==
  \/ NextTimeoutCall
  \/ \E t \in tasks, outcome \in Outcomes : SubscriptionSettles(t, outcome)
  \/ \E t \in tasks : SubscriptionTimesOut(t)
  \/ \E t \in tasks : SleepElapses(t)

SpecTimeout ==
  /\ InitTimeout
  /\ [][NextTimeout]_vars
  /\ WF_vars(\E t \in tasks : SubscriptionTimesOut(t))
  /\ WF_vars(\E t \in tasks : SleepElapses(t))

\* ---- steps, as the properties see them ----
Range(seq) == {seq[i] : i \in DOMAIN seq}

\* this step ends a call of op
Ends(op) == lastCall'.n = lastCall.n + 1 /\ lastCall'.op = op

\* this step is the environment starting op on uid and mediaType
Starts(op, uid, mediaType) ==
  /\ budget' = budget - 1
  /\ \/ /\ Ends(op)
        /\ lastCall'.uid = uid
        /\ lastCall'.mediaType = mediaType
     \/ \E t \in tasks' \ tasks :
          t.op = op /\ t.uid = uid /\ t.evMediaType = mediaType

EngineUnchanged ==
  UNCHANGED <<subscriptions, subscriptionHistory, calls, tasks, timers,
              retryTimers>>

TimersOf(p) == {tm \in timers : tm.uid.val = p}

\* ---- C1 ----
\* C1: whenever the media kind of a participant is in state SUBSCRIBED, a call
\* of subscribeToUser(id, kind) returns true at once: no client.subscribe call,
\* no change of records, timers or suspended calls, no history entry, whatever
\* the client reports of the participant.
C1_SubscribedIsNoOp ==
  [][\A uid \in UID, m \in SubscriptionType :
       (Starts("subscribeToUser", uid, m) /\ MediaStateOf(Cur, uid, m) = SUBSCRIBED)
         => (Ends("subscribeToUser") /\ lastCall'.val = TRUE /\ EngineUnchanged)
    ]_vars

\* ---- C2 ----
\* C2: once user-left has been handled for a participant, the registry holds no
\* record under that participant's canonical id, whether the id came as a
\* number or as a string.
C2_LeftRemovesRecord ==
  [][\A uid \in UID :
       (Ends("left") /\ lastCall'.uid = uid)
         => normalizeUID(uid) \notin DOMAIN subscriptions'
    ]_vars

\* ---- C3 ----
\* C3: from the handling of user-left on, and until the participant is
\* announced again, no pending polling timer refers to the participant. The
\* participants in question are those in departed: user-left was handled when
\* the client no longer listed them, and since then they were neither
\* announced by a notification nor listed by the client.
C3_NoTimerAfterLeft ==
  \A p \in departed : TimersOf(p) = {}

\* ---- C4 ----
\* C4: every key of the registry is a canonical id, so there is at most one
\* record per participant; getUserSubscriptionInfo answers the same for the
\* number and the string; and each handler and public operation given an id
\* leaves the registry as the same call with the canonical id would.
CanonicalKeys == \A k \in DOMAIN subscriptions : k = normalizeUID(k)

SameInfoForBothForms ==
  \A p \in Users :
    getUserSubscriptionInfo([form |-> "num", val |-> p])
      = getUserSubscriptionInfo([form |-> "str", val |-> p])

RegistryAsWithCanonicalId(uid, m) ==
  LET c == normalizeUID(uid)
      p == uid.val
  IN /\ Starts("joined", uid, "audio")
          => subscriptions' = _handleUserJoined(Cur, p, c).subscriptions
     /\ Starts("published", uid, m)
          => subscriptions' = _handleUserPublished(Cur, p, c, m).subscriptions
     /\ Starts("unpublished", uid, m)
          => subscriptions' = _handleUserUnpublished(Cur, p, c, m).subscriptions
     /\ Starts("left", uid, "audio")
          => subscriptions' = _handleUserLeft(Cur, p, c).subscriptions
     /\ Starts("subscribeToUser", uid, m)
          => subscriptions' =
               AfterSubscribe(subscribeToUser(
                 Cur, NewTask(Cur, "subscribeToUser", c, m), c, m, {})).subscriptions
     /\ Starts("unsubscribeFromUser", uid, m)
          => subscriptions' =
               unsubscribeFromUser(
                 Cur, NewTask(Cur, "unsubscribeFromUser", c, m), c, m).S.subscriptions

C4_OneRecordPerParticipant ==
  /\ [](CanonicalKeys /\ SameInfoForBothForms)
  /\ [][\A uid \in UID, m \in SubscriptionType : RegistryAsWithCanonicalId(uid, m)
       ]_vars

\* ---- C5 ----
\* C5: an attempt loop with budget N and base delay D in which no attempt
\* succeeds has made N client.subscribe calls, slept D*k after the k-th attempt
\* for k < N and not after the N-th, appended the failure entries 1..N, and
\* returns false with the media state SUBSCRIPTION_FAILED; a loop whose k-th
\* attempt succeeds stops there with the failure entries 1..k-1 and one
\* success entry.
C5_Backoff ==
  lastLoop.n > 0 =>
    LET N == lastLoop.maxAttempts
        D == lastLoop.retryDelay
        k == Len(lastLoop.outcomes)
    IN IF "ok" \notin Range(lastLoop.outcomes)
       THEN /\ lastLoop.calls = N
            /\ lastLoop.sleeps = [i \in 1..(N - 1) |-> D * i]
            /\ lastLoop.entries = [i \in 1..N |-> <<FALSE, i>>]
            /\ lastLoop.val = FALSE
            /\ lastLoop.state \in {SUBSCRIPTION_FAILED, Undefined}
       ELSE /\ lastLoop.outcomes[k] = "ok"
            /\ lastLoop.calls = k
            /\ lastLoop.entries =
                 [i \in 1..k |-> IF i < k THEN <<FALSE, i>> ELSE <<TRUE, k>>]
            /\ lastLoop.val = TRUE

\* ---- C6 ----
\* C6: the history never holds more than 100 entries; an append to a history
\* of 100 leaves exactly 50 entries, the last 49 of the old history followed
\* by the new one, in their order (the oldest 51 are gone); any other append
\* keeps every old entry.
HistoryAppendStep ==
  LET h == subscriptionHistory
      g == subscriptionHistory'
  IN g # h =>
       IF Len(h) = 100
       THEN Len(g) = 50 /\ \A i \in 1..49 : g[i] = h[i + 51]
       ELSE Len(g) = Len(h) + 1 /\ \A i \in 1..Len(h) : g[i] = h[i]

C6_HistoryBound ==
  /\ [](Len(subscriptionHistory) <= 100)
  /\ [][HistoryAppendStep]_vars

\* the 101st recorded attempt has just cut the history to 50
C6_Witness ==
  /\ calls.subscribeAudio = 101
  /\ Len(subscriptionHistory) = 50
  /\ subscriptionHistory[50].success = FALSE

\* ---- C7 ----
\* a call of _handleUserJoined for a participant that had audio, made while
\* auto-subscribe was enabled
JoinedWithAudio(c) == c.op = "joined" /\ c.hadAudio /\ c.autoSubscribe

\* C7 as stated: handling user-joined for a participant with audio, with
\* auto-subscribe enabled, runs the audio attempt loop exactly once and makes
\* no video subscribe call, automated participant or not.
C7_ExactlyOneAudioAttempt ==
  JoinedWithAudio(lastCall) => (lastCall.loops = 1 /\ lastCall.video = 0)

\* C7 as amended: such a call makes no video subscribe call; if the
\* participant's audio was not already marked subscribed, it runs the audio
\* attempt loop exactly once for a participant that is not automated, and once
\* or twice for an automated one (the second run is the safety net, taken when
\* the first left the audio unsubscribed).
C7_AudioAttemptsOnJoin ==
  /\ JoinedWithAudio(lastCall) =>
       /\ lastCall.video = 0
       /\ ~lastCall.wasSubscribed =>
            \/ lastCall.loops = 1
            \/ lastCall.loops = 2 /\ isBotUser(lastCall.uid)
  /\ \A t \in tasks :
       JoinedWithAudio(t) =>
         /\ t.video = 0
         /\ t.mediaType = "audio"
         /\ ~t.wasSubscribed =>
              \/ t.loops = 1
              \/ t.loops = 2 /\ isBotUser(t.uid)

\* an automated participant joined with audio, its first attempt failed and
\* the safety net made the second
C7_Witness ==
  /\ JoinedWithAudio(lastCall)
  /\ ~lastCall.wasSubscribed
  /\ isBotUser(lastCall.uid)
  /\ lastCall.loops = 2
  /\ calls.subscribeAudio = 2
  /\ calls.subscribeVideo = 0

\* ---- C8 ----
\* C8: (a) when an automated participant publishes audio while the client
\* reports hasAudio = false and the audio is not subscribed, a polling timer is
\* pending for it afterwards; (b) a poll that finds the participant with
\* hasAudio = true and the audio not subscribed makes a subscribe attempt;
\* (c) when that attempt succeeds (and the record is still there) the audio
\* state is SUBSCRIBED and no polling timer is pending for the participant, so
\* no further poll runs.
C8_PublishStartsPolling ==
  \A uid \in UID :
    (/\ Starts("published", uid, "audio")
     /\ isBotUser(uid)
     /\ ~client[uid.val].hasAudio
     /\ ~_isAlreadySubscribed(Cur, uid, "audio"))
      => \E tm \in timers' : tm.uid = uid /\ tm.mediaType = "audio"

C8_PollSubscribes ==
  \A tm \in timers :
    (/\ timers' = timers \ {tm}
     /\ \E t \in tasks' \ tasks : t.op = "poll"
     /\ findRemoteUser(tm.uid) # 0
     /\ client[tm.uid.val].hasAudio
     /\ ~_isAlreadySubscribed(Cur, tm.uid, tm.mediaType))
      => calls'.subscribeAudio = calls.subscribeAudio + 1

C8_PollSuccessStopsPolling ==
  (Ends("poll") /\ lastCall'.val = TRUE
   /\ normalizeUID(lastCall'.uid) \in DOMAIN subscriptions')
    => /\ subscriptions'[normalizeUID(lastCall'.uid)].audioState = SUBSCRIBED
       /\ \A tm \in timers' : tm.uid.val # lastCall'.uid.val

C8_PollingScenario ==
  [][C8_PublishStartsPolling /\ C8_PollSubscribes /\ C8_PollSuccessStopsPolling
    ]_vars

\* ---- C9 ----
\* C9: unsubscribeFromUser for an id without a record returns false in the
\* same step and changes nothing: no record, no state or flag, no history
\* entry, no client.unsubscribe call, no callback, no suspended call.
C9_UnsubscribeUnknown ==
  [][\A uid \in UID, m \in SubscriptionType :
       (/\ budget' = budget - 1
        /\ \/ Ends("unsubscribeFromUser") /\ lastCall'.uid = uid
                /\ lastCall'.mediaType = m
           \/ \E t \in tasks' \ tasks : t.op = "unsubscribeFromUser"
                /\ t.uid = uid /\ t.mediaType = m
        /\ normalizeUID(uid) \notin DOMAIN subscriptions)
         => (/\ Ends("unsubscribeFromUser")
             /\ lastCall'.val = FALSE
             /\ EngineUnchanged)
    ]_vars

\* unsubscribeFromUser has just returned false for a participant without a
\* record
C9_Witness ==
  /\ lastCall.op = "unsubscribeFromUser"
  /\ lastCall.val = FALSE
  /\ normalizeUID(lastCall.uid) \notin DOMAIN subscriptions
  /\ calls.unsubscribe = 0
  /\ tasks = {}

\* ---- C10 ----
\* C10: in every record audioSubscribed is true iff audioState is SUBSCRIBED,
\* and videoSubscribed is true iff videoState is SUBSCRIBED.
C10_LockStep ==
  \A k \in DOMAIN subscriptions :
    /\ subscriptions[k].audioSubscribed <=> (subscriptions[k].audioState = SUBSCRIBED)
    /\ subscriptions[k].videoSubscribed <=> (subscriptions[k].videoState = SUBSCRIBED)

\* ---- C11 ----
\* this step ends an attempt loop without a successful attempt
LoopEndsInFailure == lastLoop'.n = lastLoop.n + 1 /\ ~lastLoop'.val

NoneSubscribing ==
  \A k \in DOMAIN subscriptions :
    subscriptions[k].audioState # SUBSCRIBING /\ subscriptions[k].videoState # SUBSCRIBING

\* C11: when an attempt loop ends without a successful attempt (each attempt
\* raised, timed out or resolved with an empty result), the media state of the
\* record, if it is still there, is SUBSCRIPTION_FAILED and the failure
\* callback was invoked once, in the step that ends the loop; and no record is
\* left at SUBSCRIBING while no call is suspended.
C11_FinalFailureState ==
  /\ [](tasks = {} => NoneSubscribing)
  /\ [][LoopEndsInFailure =>
          /\ lastLoop'.state \in {SUBSCRIPTION_FAILED, Undefined}
          /\ calls'.onSubscriptionFailed = calls.onSubscriptionFailed + 1
       ]_vars

\* ---- C12 ----
WithinBudget ==
  /\ \A t \in tasks : t.calls = t.attempt /\ t.attempt <= t.maxAttempts
  /\ lastLoop.calls <= lastLoop.maxAttempts

\* C12: a pending attempt that the client never settles fails when the timeout
\* elapses and counts toward the budget: no call ever makes more than N
\* client.subscribe calls, and every suspended call of subscribeToUser
\* eventually returns, whatever the client does.
C12_EveryCallReturns ==
  /\ []WithinBudget
  /\ (tasks # {}) ~> (tasks = {})

\* a call with budget 3 has returned false after three attempts, each of which
\* ended by the timeout
C12_Witness ==
  /\ tasks = {}
  /\ lastLoop.val = FALSE
  /\ lastLoop.maxAttempts = 3
  /\ lastLoop.calls = 3
  /\ Len(subscriptionHistory) = 3
  /\ \A i \in 1..3 : subscriptionHistory[i].errorMessage = "timeout"

\* ---- C13 ----
\* the engine S when no callback throws
Quiet(S) == [S EXCEPT !.throwing = {}]

\* the handler run that ends in engine A is the run that ends in engine B but
\* for the callbacks that throw
SameRun(A, B) == Quiet(A) = B

\* C13: no call has thrown to its caller, and whatever step the engine takes
\* next (a call of subscribeToUser or unsubscribeFromUser, an attempt that
\* resolves, resolves empty, rejects or times out, a sleep that ends, an
\* unsubscribe that resolves or rejects), the registry, the history, the
\* suspended calls and the value returned are those of the same step taken
\* with callbacks that do not throw.
C13_CallbackIsolation ==
  /\ ~lastCall.threw
  /\ \A m \in SubscriptionType, opts \in CallOptionChoices :
       SameRun(AfterSubscribe(subscribeToUser(
                 Cur, NewTask(Cur, "subscribeToUser", CallbackUid, m), CallbackUid,
                 m, opts)),
               AfterSubscribe(subscribeToUser(
                 Quiet(Cur), NewTask(Cur, "subscribeToUser", CallbackUid, m),
                 CallbackUid, m, opts)))
  /\ \A m \in SubscriptionType :
       LET t == NewTask(Cur, "unsubscribeFromUser", CallbackUid, m)
           r == unsubscribeFromUser(Cur, t, CallbackUid, m)
           q == unsubscribeFromUser(Quiet(Cur), t, CallbackUid, m)
       IN /\ r.suspended = q.suspended
          /\ SameRun(IF r.suspended THEN r.S ELSE CallEnd(r.S, r.t, r.val),
                     IF q.suspended THEN q.S ELSE CallEnd(q.S, q.t, q.val))
  /\ \A t \in tasks :
       /\ t.pc = "subscribe" =>
            \A outcome \in Outcomes \cup {"timeout"} :
              SameRun(AfterSubscribe(SubscriptionSettled(Cur, t, outcome)),
                      AfterSubscribe(SubscriptionSettled(Quiet(Cur), t, outcome)))
       /\ t.pc = "sleep" =>
            SameRun(AfterSubscribe(SleepElapsed(Cur, t)),
                    AfterSubscribe(SleepElapsed(Quiet(Cur), t)))
       /\ t.pc = "unsubscribe" =>
            \A outcome \in UnsubscribeOutcomes :
              SameRun(UnsubscribeSettled(Cur, t, outcome),
                      UnsubscribeSettled(Quiet(Cur), t, outcome))

\* all three callbacks throw and each has been invoked: an attempt loop has
\* ended in success and another in failure, and an unsubscribe has returned
C13_Witness ==
  /\ throwing = Callbacks
  /\ calls.onSubscriptionSuccess >= 1
  /\ calls.onSubscriptionFailed >= 1
  /\ calls.onSubscriptionStateChanged >= 4
  /\ lastCall.op = "unsubscribeFromUser"
  /\ tasks = {}

\* ---- C14 ----
\* C14: once destroy() has run (the handlers are detached, and stay so), in
\* every later state there is no live polling timer, and the registry, the
\* timer map and the history are empty.
C14_Teardown ==
  ~handlersBound =>
    /\ timers = {}
    /\ retryTimers = EmptyMap
    /\ subscriptions = EmptyMap
    /\ subscriptionHistory = <<>>

\* ---- C15 ----
\* C15: a step that keeps the record of a participant (every step but left and
\* destroy, which only remove records) keeps its joinedAt.
C15_JoinedAtSetOnce ==
  [][\A k \in DOMAIN subscriptions \cap DOMAIN subscriptions' :
       subscriptions'[k].joinedAt = subscriptions[k].joinedAt]_vars

\* ---- C16 ----
\* no client.subscribe call is made in this step
NoSubscribeCall ==
  /\ calls'.subscribeAudio = calls.subscribeAudio
  /\ calls'.subscribeVideo = calls.subscribeVideo

\* C16: while auto-subscribe is disabled, the step that handles user-joined or
\* user-published for a participant that is not automated makes no
\* client.subscribe call and leaves no call suspended; the step that handles
\* user-joined for an automated participant that has audio, not yet subscribed,
\* makes one client.subscribe call for its audio.
C16_AutoSubscribePolicy ==
  [][\A uid \in UID :
       ~options.enableAutoSubscribe =>
         /\ (~isBotUser(uid) /\ Starts("joined", uid, "audio"))
              => (NoSubscribeCall /\ Ends("joined"))
         /\ \A m \in SubscriptionType :
              (~isBotUser(uid) /\ Starts("published", uid, m))
                => (NoSubscribeCall /\ Ends("published"))
         /\ (/\ isBotUser(uid)
             /\ client[uid.val].hasAudio
             /\ ~_isAlreadySubscribed(Cur, uid, "audio")
             /\ Starts("joined", uid, "audio"))
              => /\ calls'.subscribeAudio = calls.subscribeAudio + 1
                 /\ calls'.subscribeVideo = calls.subscribeVideo
    ]_vars

\* the last of the operations was user-joined of an automated participant
\* with audio while auto-subscribe was disabled: it made its safety-net
\* attempt, which succeeded
C16_Witness ==
  /\ lastCall.op = "joined"
  /\ ~lastCall.autoSubscribe
  /\ ~options.enableAutoSubscribe
  /\ budget = 0
  /\ isBotUser(lastCall.uid)
  /\ lastCall.hadAudio
  /\ lastCall.loops = 1
  /\ lastCall.val = TRUE
  /\ calls.subscribeAudio = 1

\* ---- C17 ----
\* C17: with the default configuration every polling timer has the interval
\* 1000 and the budget 5, and a poll after which no timer is pending, for a
\* participant the client lists with no audio, is the fifth of its polling.
C17_PollingDefaults ==
  /\ \A tm \in timers :
       /\ tm.retryDelay = BotDefaultRetryDelay
       /\ tm.maxAttempts = BotDefaultMaxAttempts
  /\ (lastCall.op = "poll" /\ TimersOf(lastCall.uid.val) = {})
       => lastCall.pollAttempts = BotDefaultMaxAttempts

\* ---- C18 ----
\* C18: when the published handler of an automated participant ends with its
\* direct subscribe attempt failed (subscribeToUser yielded false), while the
\* client reports the audio available and the audio is not subscribed, a
\* polling timer is pending for the participant.
C18_FallbackToPolling ==
  [][(/\ Ends("published")
      /\ lastCall'.stage = "bot"
      /\ ~lastCall'.val
      /\ isBotUser(lastCall'.uid)
      /\ client[lastCall'.uid.val].present
      /\ client[lastCall'.uid.val].hasAudio
      /\ ~_isAlreadySubscribed([subscriptions |-> subscriptions'],
                               lastCall'.uid, "audio"))
       => \E tm \in timers' : tm.uid.val = lastCall'.uid.val
    ]_vars

\* ---- C19 ----
\* C19: a polling iteration makes at most one client.subscribe call, and when
\* its attempt has failed before the polling budget is used up, a polling
\* timer is pending for the participant afterwards.
C19_OneAttemptPerPoll ==
  /\ [](\A t \in tasks : t.op = "poll" => t.calls <= 1)
  /\ [][(/\ Ends("poll")
         /\ lastCall'.loops = 1
         /\ ~lastCall'.val
         /\ lastCall'.pollAttempts < BotMaxAttempts)
          => \E tm \in timers' : tm.uid = lastCall'.uid
       ]_vars

\* ---- C20 ----
\* C20: every participant has at most one pending polling timer, and every
\* pending polling timer is the one the timer map holds for its participant.
C20_OneTimerPerParticipant ==
  /\ \A p \in Users : Cardinality(TimersOf(p)) <= 1
  /\ \A tm \in timers :
       /\ tm.uid \in DOMAIN retryTimers
       /\ retryTimers[tm.uid] = tm.tid

\* ---- C21 ----
\* every poll, pending or running, is within the budget of its retry
PollsWithinBudget ==
  /\ \A tm \in timers : tm.attempts < tm.maxAttempts
  /\ \A t \in tasks : t.op = "poll" => t.pollAttempts <= t.pollMax

\* the poll that has just ended met one of the four conditions that stop a
\* retry: its subscription succeeded, it found the media kind subscribed, it
\* found the participant missing from the client's list, or it was the last
\* poll of the budget
PollStop ==
  \/ lastCall'.val
  \/ lastCall'.wasSubscribed
  \/ lastCall'.loops = 0 /\ ~client[lastCall'.uid.val].present
  \/ lastCall'.pollAttempts = BotMaxAttempts

\* a retry is going on for participant p: a timer is pending or a poll runs
Polling(p) ==
  \/ TimersOf(p) # {}
  \/ \E t \in tasks : t.op = "poll" /\ t.uid.val = p

\* C21: no retry polls more often than its budget; a poll sets the next
\* timer of its retry exactly when none of the four stopping conditions is
\* met; and whenever a polling timer is pending for a participant, later no
\* retry is going on for it.
C21_PollingTerminates ==
  /\ []PollsWithinBudget
  /\ [][Ends("poll") => (PollStop <=> timers' \subseteq timers)]_vars
  /\ \A p \in Users : (TimersOf(p) # {}) ~> ~Polling(p)

\* ---- C22 ----
\* the id of participant p as the registry keys it
KeyOf(p) == normalizeUID([form |-> "num", val |-> p])

\* C22: a state update for an id that has no record leaves the manager as it
\* is; and while a participant that has left has no record, no step gives it
\* one or calls the state-change callback: not the completion of an attempt
\* that was in flight when it left, whatever its outcome.
C22_NoRecordNoUpdate ==
  /\ [](\A uid \in UID, m \in SubscriptionType, st \in SubscriptionState :
         normalizeUID(uid) \notin DOMAIN subscriptions
           => _updateSubscriptionState(Cur, uid, m, st) = Cur)
  /\ [][\A p \in departed \cap departed' :
          KeyOf(p) \notin DOMAIN subscriptions
            => /\ KeyOf(p) \notin DOMAIN subscriptions'
               /\ calls'.onSubscriptionStateChanged
                    = calls.onSubscriptionStateChanged
      ]_vars

\* an attempt that was in flight when the participant left has resolved: the
\* history holds its success, and the participant has no record
C22_Witness ==
  /\ lastLoop.n > 0
  /\ lastLoop.val
  /\ lastLoop.uid.val \in departed
  /\ KeyOf(lastLoop.uid.val) \notin DOMAIN subscriptions
  /\ subscriptionHistory # <<>>
  /\ subscriptionHistory[Len(subscriptionHistory)].success

\* ---- C23 ----
\* the id is unknown to the registry and to the client's list
Unknown(uid) ==
  /\ normalizeUID(uid) \notin DOMAIN subscriptions
  /\ findRemoteUser(uid) = 0

\* the media kind is not available now from the participant the id denotes
Unavailable(uid, mediaType) ==
  /\ ~Unknown(uid)
  /\ ~UserHas(uid.val, mediaType)

\* subscribeToUser(uid, mediaType), called now, returns false at once, with
\* no client.subscribe call, no history entry, and the media state and the
\* subscribed flag of the pair as they are
Declines(uid, mediaType) ==
  LET r == subscribeToUser(Cur, NewTask(Cur, "subscribeToUser", uid, mediaType),
                           uid, mediaType, {})
  IN /\ ~r.suspended
     /\ ~r.val
     /\ r.S.calls = calls
     /\ r.S.subscriptionHistory = subscriptionHistory
     /\ MediaStateOf(r.S, uid, mediaType) = MediaStateOf(Cur, uid, mediaType)
     /\ _isAlreadySubscribed(r.S, uid, mediaType)
          = _isAlreadySubscribed(Cur, uid, mediaType)
     /\ Unknown(uid) => r.S.subscriptions = subscriptions

\* this step is a call of subscribeToUser(uid, mediaType) that has returned
Returned(uid, mediaType) ==
  /\ budget' = budget - 1
  /\ Ends("subscribeToUser")
  /\ lastCall'.uid = uid
  /\ lastCall'.mediaType = mediaType

\* this step is a call of subscribeToUser(uid, mediaType) that is suspended
Suspended(uid, mediaType) ==
  /\ budget' = budget - 1
  /\ \E t \in tasks' \ tasks :
       t.op = "subscribeToUser" /\ t.uid = uid /\ t.mediaType = mediaType

\* C23: whenever the id is unknown to the registry and to the client's list,
\* or the media kind is not available, a call of subscribeToUser returns false
\* with no client.subscribe call, no history entry and the media state and
\* subscribed flag unchanged, and with no record created for an unknown id;
\* and the calls that are made do so.
C23_TerminalPreconditions ==
  /\ [](\A uid \in UID, m \in SubscriptionType :
         (Unknown(uid) \/ Unavailable(uid, m)) => Declines(uid, m))
  /\ [][\A uid \in UID, m \in SubscriptionType :
          (Unknown(uid) \/ Unavailable(uid, m))
            => /\ ~Suspended(uid, m)
               /\ Returned(uid, m)
                    => /\ ~lastCall'.val
                       /\ calls' = calls
                       /\ subscriptionHistory' = subscriptionHistory
                       /\ Unknown(uid) => subscriptions' = subscriptions
      ]_vars

\* a call for the audio of a participant whose audio is subscribed and not
\* available any more has returned false, and the audio is still subscribed
C23_Witness ==
  /\ lastCall.op = "subscribeToUser"
  /\ lastCall.mediaType = "audio"
  /\ ~lastCall.val
  /\ lastCall.loops = 0
  /\ client[lastCall.uid.val].present
  /\ ~client[lastCall.uid.val].hasAudio
  /\ _isAlreadySubscribed(Cur, lastCall.uid, "audio")

\* ---- C24 ----
\* the client.subscribe calls that are outstanding for participant p and
\* media kind m
InFlight(p, m) ==
  {t \in tasks : t.pc = "subscribe" /\ t.uid.val = p /\ t.mediaType = m}

\* the history entries that record a success for participant p and kind m
Successes(p, m) ==
  {i \in DOMAIN subscriptionHistory :
     /\ subscriptionHistory[i].success
     /\ subscriptionHistory[i].uid.val = p
     /\ subscriptionHistory[i].mediaType = m}

\* C24: at most one client.subscribe call is outstanding for a participant
\* and media kind; and where nothing is unsubscribed or unpublished and
\* nobody leaves, the history holds at most one success for the pair.
C24_NoDuplicateInFlight ==
  \A p \in Users, m \in SubscriptionType :
    /\ Cardinality(InFlight(p, m)) <= 1
    /\ Cardinality(Successes(p, m)) <= 1

====
